---- MODULE Spec2Model ----
(***************************************************************************)
(* add-boot-hooks.py: add_boot_hooks(input_file, output_file, lvm, encrypt)*)
(* over a small file system.  A file is a sequence of bytes, each byte a   *)
(* one-character string; "0xE9" stands for a byte outside ASCII.  Text is  *)
(* a sequence of characters.                                               *)
(***************************************************************************)
EXTENDS Integers, Sequences, FiniteSets, TLC

\* ------------------------------------------------------------------ bounds
\* longest token list of a generated HOOKS line
MaxTokens == 3
\* number of invocations of the tool in SpecRerun
MaxRuns == 2

\* --------------------------------------------------------------- constants
\* no file at a path, and a local not assigned yet: sequences that are no file
\* content and no text
NoFile == <<"NoFile">>
None == <<"None">>
\* re.search found nothing (None in Python)
NoMatch == [found |-> FALSE, start |-> 0, end |-> 0, group |-> <<>>]
NonAscii == "0xE9"

LVM_BOOT_HOOK == <<"l", "v", "m", "2">>
ENCRYPT_BOOT_HOOK == <<"e", "n", "c", "r", "y", "p", "t">>
BLOCK == <<"b", "l", "o", "c", "k">>
PCSCD == <<"p", "c", "s", "c", "d">>

\* the literal prefix of the pattern r"^HOOKS=\((.*?)\)$"
HooksPrefix == <<"H", "O", "O", "K", "S", "=", "(">>

\* ------------------------------------------------------------ sequences
Range(s) == {s[i] : i \in 1..Len(s)}

\* s[a:b] of Python for 0 <= a, b <= len(s)
Slice(s, a, b) == SubSeq(s, a + 1, b)

\* f"{output_file}.bak"
BackupPath(output_file) == output_file \o ".bak"

\* ------------------------------------------------------- text mode I/O
\* open(..., encoding="ascii").read(): newline=None turns "\r\n" and a lone
\* "\r" into "\n"
RECURSIVE UniversalNewlines(_)
UniversalNewlines(bytes) ==
    IF bytes = <<>> THEN <<>>
    ELSE IF bytes[1] = "\r"
         THEN IF Len(bytes) >= 2 /\ bytes[2] = "\n"
              THEN <<"\n">> \o UniversalNewlines(SubSeq(bytes, 3, Len(bytes)))
              ELSE <<"\n">> \o UniversalNewlines(Tail(bytes))
         ELSE <<bytes[1]>> \o UniversalNewlines(Tail(bytes))

\* the ascii codec refuses a byte above 0x7f
DecodeFails(bytes) == NonAscii \in Range(bytes)

ReadText(bytes) == UniversalNewlines(bytes)

\* output_fp.write(text): every character is ASCII and "\n" is written as
\* os.linesep, which is "\n" on the platform mkinitcpio exists on
WriteBytes(text) == text

\* ------------------------------------------------------------- re.search
\* "^" under re.MULTILINE: the start of the string or just after "\n"
LineStart(s, i) == i = 1 \/ s[i - 1] = "\n"

\* "$" under re.MULTILINE: the end of the string or just before "\n"
LineEnd(s, j) == j = Len(s) \/ s[j + 1] = "\n"

PrefixAt(s, i) ==
    /\ i + Len(HooksPrefix) - 1 <= Len(s)
    /\ SubSeq(s, i, i + Len(HooksPrefix) - 1) = HooksPrefix

\* the positions j of a closing ")" that ends a match starting at i: "." does
\* not match "\n"
Closers(s, i) ==
    {j \in (i + Len(HooksPrefix))..Len(s) :
        /\ s[j] = ")"
        /\ LineEnd(s, j)
        /\ \A k \in (i + Len(HooksPrefix))..(j - 1) : s[k] # "\n"}

MatchStarts(s) ==
    {i \in 1..Len(s) : LineStart(s, i) /\ PrefixAt(s, i) /\ Closers(s, i) # {}}

Min(S) == CHOOSE x \in S : \A y \in S : x <= y

\* re.search(r"^HOOKS=\((.*?)\)$", contents, re.MULTILINE): the leftmost
\* match, its group the shortest; start and end are Python's (0-based, end
\* exclusive)
ReSearch(s) ==
    IF MatchStarts(s) = {} THEN NoMatch
    ELSE LET i == Min(MatchStarts(s))
             j == Min(Closers(s, i))
         IN  [found |-> TRUE, start |-> i - 1, end |-> j,
              group |-> SubSeq(s, i + Len(HooksPrefix), j - 1)]

\* ------------------------------------------------------------ str.split
IsSpace(c) == c \in {" ", "\t", "\n", "\r", "\f"}

RECURSIVE SplitFrom(_, _)
\* cur is the token being read; it is emitted at the next white space
SplitFrom(s, cur) ==
    IF s = <<>> THEN (IF cur = <<>> THEN <<>> ELSE <<cur>>)
    ELSE IF IsSpace(s[1])
         THEN (IF cur = <<>> THEN <<>> ELSE <<cur>>) \o SplitFrom(Tail(s), <<>>)
         ELSE SplitFrom(Tail(s), Append(cur, s[1]))

Split(s) == SplitFrom(s, <<>>)

\* " ".join(hooks)
RECURSIVE Join(_)
Join(hooks) ==
    IF hooks = <<>> THEN <<>>
    ELSE IF Len(hooks) = 1 THEN hooks[1]
    ELSE hooks[1] \o <<" ">> \o Join(Tail(hooks))

\* ------------------------------------------------------------ list ops
\* x in hooks
Contains(hooks, x) == x \in Range(hooks)

\* a slip: the last occurrence instead of the first
ListIndexLast(hooks, x) ==
    IF Contains(hooks, x)
    THEN (CHOOSE i \in 1..Len(hooks) :
             hooks[i] = x /\ \A k \in (i + 1)..Len(hooks) : hooks[k] # x) - 1
    ELSE -1

\* hooks.index(x), 0-based; where index raises (see IndexRaises) there is no
\* value, written -1
ListIndex(hooks, x) ==
    IF Contains(hooks, x) THEN Min({i \in 1..Len(hooks) : hooks[i] = x}) - 1 ELSE -1

\* a slip: a lookup that never raises, as str.find would
IndexNeverRaises(hooks) == FALSE

\* hooks.index("block") raises ValueError
IndexRaises(hooks) == ~Contains(hooks, BLOCK)

\* hooks.insert(i, x) for 0 <= i <= len(hooks)
ListInsert(hooks, i, x) ==
    SubSeq(hooks, 1, i) \o <<x>> \o SubSeq(hooks, i + 1, Len(hooks))

\* a slip: the two insertions in the other order
AddHooksEncryptFirst(hooks, block_index, l, e) ==
    LET h1 == IF e /\ ~Contains(hooks, ENCRYPT_BOOT_HOOK)
              THEN ListInsert(hooks, block_index + 1, ENCRYPT_BOOT_HOOK)
              ELSE hooks
    IN  IF l /\ ~Contains(h1, LVM_BOOT_HOOK)
        THEN ListInsert(h1, block_index + 1, LVM_BOOT_HOOK)
        ELSE h1

\* lines 49-52: lvm2 first, then encrypt, both at block_index + 1
AddHooks(hooks, block_index, l, e) ==
    LET h1 == IF l /\ ~Contains(hooks, LVM_BOOT_HOOK)
              THEN ListInsert(hooks, block_index + 1, LVM_BOOT_HOOK)
              ELSE hooks
    IN  IF e /\ ~Contains(h1, ENCRYPT_BOOT_HOOK)
        THEN ListInsert(h1, block_index + 1, ENCRYPT_BOOT_HOOK)
        ELSE h1

\* f"HOOKS=({' '.join(hooks)})"
HookStr(hooks) == HooksPrefix \o Join(hooks) \o <<")">>

\* --------------------------------------------------------- file system
Paths == {"conf", "conf.bak"}

AllPaths == Paths \cup {BackupPath(p) : p \in Paths}

\* Path(output_file).is_file()
IsFile(f, path) == f[path] # NoFile

\* a slip: an existing backup is kept
CopyFileKeep(f, src, dst) == IF f[dst] = NoFile THEN [f EXCEPT ![dst] = f[src]] ELSE f

\* shutil.copy(src, dst): the bytes of src become the bytes of dst
CopyFile(f, src, dst) == [f EXCEPT ![dst] = f[src]]

\* a slip: the early exit is missing
NothingToAddDropped(l, e) == FALSE

\* line 23
NothingToAdd(l, e) == ~l /\ ~e

\* ------------------------------------------------------------- inputs
Tokens == {BLOCK, LVM_BOOT_HOOK, ENCRYPT_BOOT_HOOK, PCSCD}

TokenLists == UNION {[1..k -> Tokens] : k \in 0..MaxTokens}

RECURSIVE JoinWith(_, _)
JoinWith(toks, sep) ==
    IF toks = <<>> THEN <<>>
    ELSE IF Len(toks) = 1 THEN toks[1]
    ELSE toks[1] \o sep \o JoinWith(Tail(toks), sep)

\* what surrounds the token list: a bare line; a comment before and a second
\* HOOKS line after; a CRLF file with tabs and padding
Layouts ==
    { [pre |-> <<>>, lead |-> <<>>, sep |-> <<" ">>, post |-> <<>>],
      [pre |-> <<"#", "\n">>, lead |-> <<>>, sep |-> <<" ">>,
       post |-> <<"\n">> \o HooksPrefix \o <<")", "\n">>],
      [pre |-> <<"#", "\r", "\n">>, lead |-> <<" ">>, sep |-> <<"\t", " ">>,
       post |-> <<"\r", "\n">>] }

ConfBytes(toks, lay) ==
    lay.pre \o HooksPrefix \o lay.lead \o JoinWith(toks, lay.sep) \o <<")">> \o lay.post

\* files without a line the pattern matches, and one that is not ASCII
NoHooksConf == <<"M", "=", "(", ")", "\n">>
CommentedConf == <<"#">> \o HooksPrefix \o BLOCK \o <<")", "\n">>
TrailingConf == HooksPrefix \o BLOCK \o <<")", " ", "\n">>
NonAsciiConf == <<"#", NonAscii, "\n">> \o HooksPrefix \o BLOCK \o <<")", "\n">>
\* what may lie at conf.bak: an old file without a HOOKS line, or one with it
OldConf == <<"#", "o", "\n">>
BakConf == HooksPrefix \o BLOCK \o <<")", "\n">>

ConfFiles ==
    {ConfBytes(toks, lay) : toks \in TokenLists, lay \in Layouts}
        \cup {NoHooksConf, CommentedConf, TrailingConf, NonAsciiConf, NoFile}

InitialFS ==
    {[p \in AllPaths |-> IF p = "conf" THEN c ELSE IF p = "conf.bak" THEN b ELSE NoFile] :
        c \in ConfFiles, b \in {NoFile, OldConf, BakConf}}

\* -------------------------------------------------------------- state
VARIABLES
    fs,           \* path -> bytes of the file, or NoFile
    pc,           \* where add_boot_hooks stands
    input_file, output_file, lvm, encrypt,
    contents, hook_match, head, tail, hooks, hook_str,
    error,        \* the exception that ended the call, or "none"
    runs,         \* invocations so far
    fs0,          \* the file system when the current call started
    io,           \* the file operations of the current call
    prev          \* what the previous call wrote, or "None"

vars == <<fs, pc, input_file, output_file, lvm, encrypt, contents, hook_match,
          head, tail, hooks, hook_str, error, runs, fs0, io, prev>>

args == <<input_file, output_file, lvm, encrypt>>
locals == <<contents, hook_match, head, tail, hooks, hook_str>>
history == <<runs, fs0, prev>>

Init ==
    /\ fs \in InitialFS
    /\ pc = "idle"
    /\ input_file = "conf" /\ output_file = "conf"
    /\ lvm = FALSE /\ encrypt = FALSE
    /\ contents = None /\ hook_match = NoMatch /\ head = None /\ tail = None
    /\ hooks = None /\ hook_str = None
    /\ error = "none"
    /\ runs = 0
    /\ fs0 = fs
    /\ io = {}
    /\ prev = None

Raise(exc) == pc' = "raised" /\ error' = exc

\* main(), lines 78-83: one invocation with any arguments
Call ==
    /\ pc = "idle" /\ runs = 0
    /\ \E i \in Paths, o \in Paths, l \in BOOLEAN, e \in BOOLEAN :
          /\ input_file' = i /\ output_file' = o
          /\ lvm' = l /\ encrypt' = e
    /\ pc' = "start"
    /\ runs' = 1
    /\ fs0' = fs
    /\ io' = {}
    /\ UNCHANGED <<fs, locals, error, prev>>

\* lines 23-26
NoHooksToAdd ==
    /\ pc = "start"
    /\ NothingToAdd(lvm, encrypt)
    /\ pc' = "returned"
    /\ UNCHANGED <<fs, args, locals, error, history, io>>

\* line 29, no file at output_file
BackupSkip ==
    /\ pc = "start"
    /\ ~NothingToAdd(lvm, encrypt)
    /\ ~IsFile(fs, output_file)
    /\ pc' = "read"
    /\ UNCHANGED <<fs, args, locals, error, history, io>>

\* lines 29-32
BackupCopy ==
    /\ pc = "start"
    /\ ~NothingToAdd(lvm, encrypt)
    /\ IsFile(fs, output_file)
    /\ fs' = CopyFile(fs, output_file, BackupPath(output_file))
    /\ io' = io \cup {<<"read", output_file>>, <<"write", BackupPath(output_file)>>}
    /\ pc' = "read"
    /\ UNCHANGED <<args, locals, error, history>>

\* line 32, shutil.copy raises: the backup is as it was or was truncated
BackupFails ==
    /\ pc = "start"
    /\ ~NothingToAdd(lvm, encrypt)
    /\ IsFile(fs, output_file)
    /\ \E left \in {fs[BackupPath(output_file)], <<>>} :
          fs' = [fs EXCEPT ![BackupPath(output_file)] = left]
    /\ io' = io \cup {<<"read", output_file>>, <<"write", BackupPath(output_file)>>}
    /\ Raise("OSError")
    /\ UNCHANGED <<args, locals, history>>

\* line 35, no such file
ReadMissing ==
    /\ pc = "read"
    /\ ~IsFile(fs, input_file)
    /\ Raise("FileNotFoundError")
    /\ UNCHANGED <<fs, args, locals, history, io>>

\* lines 35-36, the file cannot be opened or read
ReadDenied ==
    /\ pc = "read"
    /\ IsFile(fs, input_file)
    /\ io' = io \cup {<<"read", input_file>>}
    /\ Raise("OSError")
    /\ UNCHANGED <<fs, args, locals, history>>

\* line 36, a byte that is not ASCII
ReadDecodeError ==
    /\ pc = "read"
    /\ IsFile(fs, input_file)
    /\ DecodeFails(fs[input_file])
    /\ io' = io \cup {<<"read", input_file>>}
    /\ Raise("UnicodeDecodeError")
    /\ UNCHANGED <<fs, args, locals, history>>

\* lines 35-36
ReadInput ==
    /\ pc = "read"
    /\ IsFile(fs, input_file)
    /\ ~DecodeFails(fs[input_file])
    /\ contents' = ReadText(fs[input_file])
    /\ io' = io \cup {<<"read", input_file>>}
    /\ pc' = "search"
    /\ UNCHANGED <<fs, args, hook_match, head, tail, hooks, hook_str, error, history>>

\* lines 39-44, a line matches
SearchHooks ==
    /\ pc = "search"
    /\ ReSearch(contents) # NoMatch
    /\ hook_match' = ReSearch(contents)
    /\ head' = Slice(contents, 0, hook_match'.start)
    /\ tail' = Slice(contents, hook_match'.end, Len(contents))
    /\ pc' = "rewrite"
    /\ UNCHANGED <<fs, args, contents, hooks, hook_str, error, history, io>>

\* line 40, no line matches
AssertFails ==
    /\ pc = "search"
    /\ ReSearch(contents) = NoMatch
    /\ hook_match' = NoMatch
    /\ Raise("AssertionError")
    /\ UNCHANGED <<fs, args, contents, head, tail, hooks, hook_str, history, io>>

\* line 43 under python -O, which drops line 40: None has no start()
AssertStripped ==
    /\ pc = "search"
    /\ ReSearch(contents) = NoMatch
    /\ hook_match' = NoMatch
    /\ Raise("AttributeError")
    /\ UNCHANGED <<fs, args, contents, head, tail, hooks, hook_str, history, io>>

\* line 48, "block" is not a token
IndexFails ==
    /\ pc = "rewrite"
    /\ IndexRaises(Split(hook_match.group))
    /\ hooks' = Split(hook_match.group)
    /\ Raise("ValueError")
    /\ UNCHANGED <<fs, args, contents, hook_match, head, tail, hook_str, history, io>>

\* lines 47-53
RewriteHooks ==
    /\ pc = "rewrite"
    /\ ~IndexRaises(Split(hook_match.group))
    /\ LET split == Split(hook_match.group)
           block_index == ListIndex(split, BLOCK)
       IN  hooks' = AddHooks(split, block_index, lvm, encrypt)
    /\ hook_str' = HookStr(hooks')
    /\ pc' = "open"
    /\ UNCHANGED <<fs, args, contents, hook_match, head, tail, error, history, io>>

\* line 58, open(output_file, "w") raises
OpenFails ==
    /\ pc = "open"
    /\ Raise("OSError")
    /\ UNCHANGED <<fs, args, locals, history, io>>

\* line 58, open(output_file, "w") creates or truncates the file
OpenOutput ==
    /\ pc = "open"
    /\ fs' = [fs EXCEPT ![output_file] = <<>>]
    /\ io' = io \cup {<<"write", output_file>>}
    /\ pc' = "write_head"
    /\ UNCHANGED <<args, locals, error, history>>

WriteTo(f, path, text) == [f EXCEPT ![path] = f[path] \o WriteBytes(text)]

\* line 59
WriteHead ==
    /\ pc = "write_head"
    /\ fs' = WriteTo(fs, output_file, head)
    /\ pc' = "write_hook"
    /\ UNCHANGED <<args, locals, error, history, io>>

\* line 60
WriteHookStr ==
    /\ pc = "write_hook"
    /\ fs' = WriteTo(fs, output_file, hook_str)
    /\ pc' = "write_tail"
    /\ UNCHANGED <<args, locals, error, history, io>>

\* line 61
WriteTail ==
    /\ pc = "write_tail"
    /\ fs' = WriteTo(fs, output_file, tail)
    /\ pc' = "returned"
    /\ UNCHANGED <<args, locals, error, history, io>>

\* lines 59-61, a write (or the flush at close) raises: what was written stays
WriteFails ==
    /\ pc \in {"write_head", "write_hook", "write_tail"}
    /\ Raise("OSError")
    /\ UNCHANGED <<fs, args, locals, history, io>>

\* the tool is run again on what it wrote, with the same flags
Rerun ==
    /\ pc = "returned" /\ runs < MaxRuns
    /\ \E o \in Paths : output_file' = o
    /\ input_file' = output_file
    /\ prev' = IF NothingToAdd(lvm, encrypt) THEN None ELSE fs[output_file]
    /\ runs' = runs + 1
    /\ fs0' = fs
    /\ io' = {}
    /\ contents' = None /\ hook_match' = NoMatch /\ head' = None /\ tail' = None
    /\ hooks' = None /\ hook_str' = None
    /\ pc' = "start"
    /\ UNCHANGED <<fs, lvm, encrypt, error>>

Next ==
    \/ Call
    \/ NoHooksToAdd
    \/ BackupSkip \/ BackupCopy \/ BackupFails
    \/ ReadMissing \/ ReadDenied \/ ReadDecodeError \/ ReadInput
    \/ SearchHooks \/ AssertFails \/ AssertStripped
    \/ IndexFails \/ RewriteHooks
    \/ OpenFails \/ OpenOutput
    \/ WriteHead \/ WriteHookStr \/ WriteTail \/ WriteFails

Spec == Init /\ [][Next]_vars

NextRerun == Next \/ Rerun

SpecRerun == Init /\ [][NextRerun]_vars

\* ------------------------------------------------------------- claims
Started == runs >= 1
FlagSet == lvm \/ encrypt
Succeeded == pc = "returned" /\ FlagSet
OriginalTokens == Split(hook_match.group)

\* toks with the hooks new inserted right after the first "block"
AfterFirstBlock(toks, new) ==
    LET i == CHOOSE i \in 1..Len(toks) :
                 toks[i] = BLOCK /\ \A k \in 1..(i - 1) : toks[k] # BLOCK
    IN  SubSeq(toks, 1, i) \o new \o SubSeq(toks, i + 1, Len(toks))

\* the file written when the HOOKS line holds toks, single spaces between them
WrittenWith(toks) == head \o HooksPrefix \o Join(toks) \o <<")">> \o tail

Requested == IF lvm THEN LVM_BOOT_HOOK ELSE ENCRYPT_BOOT_HOOK

\* C1: a successful run with exactly one flag set, on a HOOKS line that has
\* "block" and lacks the requested hook, writes the original tokens with that
\* hook inserted right after the first "block", the others in their order.
C1_SingleHookAfterFirstBlock ==
    (/\ Succeeded
     /\ lvm # encrypt
     /\ Contains(OriginalTokens, BLOCK)
     /\ ~Contains(OriginalTokens, Requested))
    => /\ hooks = AfterFirstBlock(OriginalTokens, <<Requested>>)
       /\ fs[output_file] = WrittenWith(AfterFirstBlock(OriginalTokens, <<Requested>>))

C1_Witness ==
    /\ Succeeded
    /\ lvm /\ ~encrypt
    /\ OriginalTokens = <<PCSCD, BLOCK, PCSCD>>
    /\ hooks = <<PCSCD, BLOCK, LVM_BOOT_HOOK, PCSCD>>

\* C2: a successful run with both flags set, on a HOOKS line that has "block"
\* and neither hook, writes "encrypt" right after the first "block" and
\* "lvm2" right after that "encrypt", the original tokens in their order.
C2_BothHooksEncryptThenLvm ==
    (/\ Succeeded
     /\ lvm /\ encrypt
     /\ Contains(OriginalTokens, BLOCK)
     /\ ~Contains(OriginalTokens, LVM_BOOT_HOOK)
     /\ ~Contains(OriginalTokens, ENCRYPT_BOOT_HOOK))
    => /\ hooks = AfterFirstBlock(OriginalTokens, <<ENCRYPT_BOOT_HOOK, LVM_BOOT_HOOK>>)
       /\ fs[output_file] =
              WrittenWith(AfterFirstBlock(OriginalTokens, <<ENCRYPT_BOOT_HOOK, LVM_BOOT_HOOK>>))

C2_Witness ==
    /\ Succeeded
    /\ lvm /\ encrypt
    /\ OriginalTokens = <<BLOCK, PCSCD>>
    /\ hooks = <<BLOCK, ENCRYPT_BOOT_HOOK, LVM_BOOT_HOOK, PCSCD>>

\* C3: after a successful run the output file is the input file as it was,
\* byte for byte, but for one HOOKS line: the bytes before that line and the
\* bytes after it are those of the input.  Stated for the calls whose input
\* path is not <output>.bak; the others are the subject of C10.
C3_OutsideBytesIdentical ==
    (Succeeded /\ input_file # BackupPath(output_file)) =>
        LET B == fs0[input_file]
        IN  /\ B # NoFile
            /\ \E a \in 0..Len(B), b \in 1..Len(B) :
                  /\ a < b
                  /\ LineStart(B, a + 1) /\ PrefixAt(B, a + 1)
                  /\ B[b] = ")" /\ LineEnd(B, b)
                  /\ \A k \in (a + 1)..b : B[k] # "\n"
                  /\ fs[output_file] = SubSeq(B, 1, a) \o hook_str \o SubSeq(B, b + 1, Len(B))

\* C4: when a file with content X was at the output path at the start of a
\* run with a flag set and the run succeeds, <output>.bak holds exactly X,
\* whatever it held before.
C4_BackupHoldsOldOutput ==
    (Succeeded /\ IsFile(fs0, output_file))
    => fs[BackupPath(output_file)] = fs0[output_file]

C4_Witness ==
    /\ Succeeded
    /\ input_file = output_file
    /\ fs0[BackupPath(output_file)] = OldConf
    /\ fs[BackupPath(output_file)] = fs0[output_file]
    /\ hooks = OriginalTokens

\* the number of times x occurs in hooks
Count(s, x) == Cardinality({i \in 1..Len(s) : s[i] = x})

\* C5: a second run with the same flags on the output of a first successful
\* run writes the content the first run wrote, and no run adds a hook that is
\* already there.
C5_Idempotent ==
    /\ (runs >= 2 /\ Succeeded /\ prev # None) => fs[output_file] = prev
    /\ Succeeded =>
          /\ Count(hooks, LVM_BOOT_HOOK) <= Count(OriginalTokens, LVM_BOOT_HOOK) + 1
          /\ Count(OriginalTokens, LVM_BOOT_HOOK) >= 1 =>
                 Count(hooks, LVM_BOOT_HOOK) = Count(OriginalTokens, LVM_BOOT_HOOK)
          /\ Count(OriginalTokens, ENCRYPT_BOOT_HOOK) >= 1 =>
                 Count(hooks, ENCRYPT_BOOT_HOOK) = Count(OriginalTokens, ENCRYPT_BOOT_HOOK)

\* C6: a call with both flags false does no file I/O and raises nothing: no
\* file is read, no file is created or changed, and the call returns.
C6_NoFlagsNoIO ==
    (Started /\ ~lvm /\ ~encrypt)
    => /\ pc \in {"start", "returned"}
       /\ fs = fs0
       /\ io = {}
       /\ contents = None
       /\ error = "none"

C6_Witness ==
    /\ pc = "returned"
    /\ ~lvm /\ ~encrypt
    /\ ~IsFile(fs0, input_file)
    /\ IsFile(fs0, output_file)
    /\ fs = fs0

\* the text of the input file as it was at the start of the run has no line
\* the pattern matches
InputHadNoHooksLine ==
    /\ IsFile(fs0, input_file)
    /\ ~DecodeFails(fs0[input_file])
    /\ ~ReSearch(ReadText(fs0[input_file])).found

\* C7: with a flag set and an input content without a HOOKS line the run
\* fails before it writes the destination: the destination keeps its content
\* (or stays absent) and only <output>.bak may have changed.
C7_NoHooksLineFails ==
    (Started /\ FlagSet /\ InputHadNoHooksLine)
    => /\ pc # "returned"
       /\ fs[output_file] = fs0[output_file]
       /\ \A p \in AllPaths \ {BackupPath(output_file)} : fs[p] = fs0[p]

\* C8: with a flag set and a matched HOOKS line without the token "block"
\* the run ends in an error and never writes the output path.
C8_NoAnchorNoWrite ==
    (Started /\ FlagSet /\ hook_match.found /\ ~Contains(OriginalTokens, BLOCK))
    => /\ pc \in {"rewrite", "raised"}
       /\ pc = "raised" => error = "ValueError"
       /\ <<"write", output_file>> \notin io
       /\ fs[output_file] = fs0[output_file]

C8_Witness ==
    /\ pc = "raised" /\ error = "ValueError"
    /\ lvm
    /\ hooks = <<PCSCD, ENCRYPT_BOOT_HOOK>>
    /\ IsFile(fs0, output_file)
    /\ fs[output_file] = fs0[output_file]

\* C9: in every failed run the file at the output path has at the end the
\* content it had at the start.
C9_FailureLeavesOutput ==
    pc = "raised" => fs[output_file] = fs0[output_file]

\* C10: when the input path is not the output path the input file is never
\* changed, and what a successful run wrote was computed from the input file
\* as it was at the start.
C10_InputUntouched ==
    (Started /\ input_file # output_file)
    => /\ fs[input_file] = fs0[input_file]
       /\ Succeeded => /\ IsFile(fs0, input_file)
                       /\ contents = ReadText(fs0[input_file])

====
